---- MODULE Spec2Model ----
(***************************************************************************)
(* A model of the hand raiser's concurrency core.                          *)
(*                                                                         *)
(*   audience.py  Audience: the count of raised hands behind an            *)
(*                asyncio.Lock, raising and lowering the robot's hand.     *)
(*   robot.py     Robot: the servo and the background task that wiggles    *)
(*                the hand on inactivity.                                  *)
(*                                                                         *)
(*   main.py      Robot: an earlier coordinator that keeps the count, the   *)
(*                mutex, the servo and the wiggling task in one class and  *)
(*                stops the task through an asyncio.Event.                 *)
(*                                                                         *)
(* Everything runs on one asyncio event loop: a coroutine runs without     *)
(* interruption until it awaits something that is not ready.  Each action  *)
(* below is one such run, from one suspension point to the next.           *)
(***************************************************************************)
EXTENDS Integers, Sequences, FiniteSets, TLC

\* ------------------------------------------------------------- bounds
NumCallers == 2      \* coroutines that call into the Audience
MaxCalls == 3        \* calls made in one behaviour, over all callers
MaxSet == 2          \* largest value passed to set_count

\* ------------------------------------------------- program constants
UPPER_POSITION == 93
LOWER_POSITION == 152
WIGGLE_AMOUNT == 7
WIGGLE_REPEATS == 3

None == 0
Callers == 1..NumCallers

\* The calls a caller can make: increment_count(), decrement_count(),
\* set_count(n).
Ops ==
    {[name |-> "inc", n |-> 0], [name |-> "dec", n |-> 0]}
        \cup {[name |-> "set", n |-> k] : k \in 0..MaxSet}

NoOp == [name |-> "none", n |-> 0]

VARIABLES
    count,      \* Audience._count
    mutex,      \* Audience._mutex: the caller holding it, or None
    waiters,    \* Audience._mutex: callers waiting for it, first come first
    wiggler,    \* Robot._wiggler: index into tasks, or None
    tasks,      \* every task made by asyncio.create_task, in order
    lastCmd,    \* the position last sent to Robot._servo.move
    pc,         \* where each caller is suspended
    op,         \* the call each caller is making, or made last
    ncalls,     \* calls started so far
    call,       \* per caller, what its current (or last) call has done
    seen,       \* history: the operations called, "negative" once count < 0
    run,        \* history: the current run of set_count(n) calls with one n
    cv,         \* main.py only: Robot._cv is set
    shutdown,   \* main.py only: Robot._should_shutdown_wiggler
    py311,      \* main.py only: asyncio.TimeoutError is the builtin TimeoutError
    teardown    \* robot.py only: the exit of the create_robot context

vars ==
    <<count, mutex, waiters, wiggler, tasks, lastCmd, pc, op, ncalls, call,
      seen, run, cv, shutdown, py311, teardown>>

\* What audience.py and robot.py do not have.
mainOnly == <<cv, shutdown, py311>>

\* The Audience, and the callers with their history.
audience == <<count, mutex, waiters>>
callers == <<pc, op, ncalls, call, seen, run>>

\* What a call has done so far: pre and preHandle are the count and the
\* task handle it found when it entered the critical section, moved the
\* positions it sent to the servo, started the tasks it created, stopped
\* the task it cancelled, result how it returned, post and handle the count
\* and the task handle it left.  shouldStart (main.py only) tells whether
\* _start_wiggler follows the move the call is waiting for.
NewCall ==
    [pre |-> 0, preHandle |-> None, moved |-> <<>>, started |-> 0,
     stopped |-> None, result |-> "none", post |-> 0, handle |-> None,
     shouldStart |-> FALSE]

\* A run of set_count(n) calls: it begins with a set_count(n), n > 0, made
\* when no call is in progress and the count is not negative, and lasts
\* while every call that starts is a set_count(n) again.  calls counts the
\* calls of the run, raised their moves to UPPER_POSITION, started the
\* tasks they created.
NoRun == [n |-> 0, calls |-> 0, raised |-> 0, started |-> 0]

Raises(moved) == Cardinality({k \in DOMAIN moved : moved[k] = UPPER_POSITION})

\* A task created by raise_hand, before the loop has run its first step.
NewTask == [pc |-> "created", i |-> 0, cancel |-> FALSE]

TaskIds == 1..Len(tasks)

\* A task that has finished: by returning, by being cancelled before it
\* caught anything, by an exception of the servo or (main.py) by a timeout
\* that nothing caught.
TaskDone(t) == t.pc \in {"returned", "cancelled", "failed", "timedOut"}

\* The body of "async with create_robot(...)" is running: nothing of the
\* finally block has run.  task is the task Robot.stop awaits, after the
\* callers that awaited it before; result, cmd and alive tell how stop ended
\* and, when client.close() is called, the position last sent and whether a
\* task is alive.
NoTeardown ==
    [pc |-> "running", task |-> None, after |-> {}, result |-> "none",
     cmd |-> 0, alive |-> FALSE]

Init ==
    /\ count = 0
    /\ mutex = None
    /\ waiters = <<>>
    /\ wiggler = None
    /\ tasks = <<>>
    /\ lastCmd = LOWER_POSITION
    /\ pc = [c \in Callers |-> "idle"]
    /\ op = [c \in Callers |-> NoOp]
    /\ ncalls = 0
    /\ call = [c \in Callers |-> NewCall]
    /\ seen = {}
    /\ run = NoRun
    /\ cv = FALSE
    /\ shutdown = TRUE
    /\ py311 = TRUE
    /\ teardown = NoTeardown

\* ------------------------------------------------------------ audience.py

\* self._count += 1 and self._count -= 1 come first in their critical
\* sections; set_count assigns the count last.
CountOnEntry(o, cnt) ==
    CASE o.name = "inc" -> cnt + 1
      [] o.name = "dec" -> cnt - 1
      [] OTHER -> cnt

CountOnExit(o, cnt) == IF o.name = "set" THEN o.n ELSE cnt

\* The conditions under which the three operations call Robot.raise_hand
\* and Robot.lower_hand; cnt is self._count when the condition is evaluated.
\* (mutant: increment_count tests the count it had before adding one)
RaiseNeededM(o, cnt) ==
    \/ o.name = "inc" /\ cnt = 0
    \/ o.name = "set" /\ cnt = 0 /\ o.n > 0

RaiseNeeded(o, cnt) ==
    \/ o.name = "inc" /\ cnt = 1
    \/ o.name = "set" /\ cnt = 0 /\ o.n > 0

\* (mutant: decrement_count lowers the hand whatever count is left)
LowerAlwaysM(o, cnt) ==
    \/ o.name = "dec" /\ cnt >= 0
    \/ o.name = "set" /\ cnt > 0 /\ o.n = 0

\* (mutant: set_count lowers the hand whenever the count was positive)
LowerNeededM(o, cnt) ==
    \/ o.name = "dec" /\ cnt = 0
    \/ o.name = "set" /\ cnt > 0

LowerNeeded(o, cnt) ==
    \/ o.name = "dec" /\ cnt = 0
    \/ o.name = "set" /\ cnt > 0 /\ o.n = 0

\* asyncio.Lock.acquire returns at once, without suspending, when the lock
\* is free and nobody waits for it.
\* (mutant: no mutual exclusion)
MutexFreeM == TRUE

MutexFree == mutex = None /\ waiters = <<>>

\* asyncio.Lock.release at the end of "async with": the first waiter gets
\* the lock; nobody can overtake it.
Release ==
    IF waiters = <<>>
    THEN mutex' = None /\ waiters' = waiters
    ELSE mutex' = Head(waiters) /\ waiters' = Tail(waiters)

\* The call of caller c returns (res = "ok") or raises (anything else), at
\* count cnt inside the critical section, and leaves "async with".
Finish(c, o, cnt, res, cl) ==
    /\ count' = IF res = "ok" THEN CountOnExit(o, cnt) ELSE cnt
    /\ pc' = [pc EXCEPT ![c] = "idle"]
    /\ call' = [call EXCEPT ![c] =
                   [cl EXCEPT !.result = res, !.post = count', !.handle = wiggler']]
    /\ Release

\* Caller c stays inside the critical section, suspended at where.
Suspend(c, cnt, where, cl) ==
    /\ count' = cnt
    /\ pc' = [pc EXCEPT ![c] = where]
    /\ call' = [call EXCEPT ![c] = cl]
    /\ mutex' = c
    /\ waiters' = waiters

\* -------------------------------------------------------------- robot.py

\* What "await self._wiggler" gives: nothing yet while the task runs, the
\* task's result when it returned, the task's exception otherwise.
\* (mutant: lower_hand cancels the task and does not await it)
AwaitResultM(t) ==
    CASE t.pc = "cancelled" -> "CancelledError"
      [] t.pc = "failed" -> "fault"
      [] OTHER -> "ok"

AwaitResult(t) ==
    CASE t.pc = "returned" -> "ok"
      [] t.pc = "cancelled" -> "CancelledError"
      [] t.pc = "failed" -> "fault"
      [] t.pc = "timedOut" -> "TimeoutError"
      [] OTHER -> "pending"

\* Task.cancel(): a request the task sees at its next step; nothing for a
\* task that is done.
Cancel(t) == IF TaskDone(t) THEN t ELSE [t EXCEPT !.cancel = TRUE]

\* Robot.raise_hand up to its servo move.
RaiseHand(c, o, cnt, cl) ==
    IF wiggler # None
    THEN \* LOGIC BUG: trying to raise already-raised hand
         /\ UNCHANGED <<wiggler, tasks, lastCmd>>
         /\ Finish(c, o, cnt, "ok", cl)
    ELSE /\ lastCmd' = UPPER_POSITION
         /\ Suspend(c, cnt, "raiseMove",
                    [cl EXCEPT !.moved = Append(@, UPPER_POSITION)])
         /\ UNCHANGED <<wiggler, tasks>>

\* Robot.lower_hand from the end of "await self._wiggler".
Joined(c, o, cnt, cl, t) ==
    IF AwaitResult(t) = "ok"
    THEN /\ wiggler' = None
         /\ lastCmd' = LOWER_POSITION
         /\ Suspend(c, cnt, "lowerMove",
                    [cl EXCEPT !.moved = Append(@, LOWER_POSITION)])
    ELSE /\ UNCHANGED <<wiggler, lastCmd>>
         /\ Finish(c, o, cnt, AwaitResult(t), cl)

\* Robot.lower_hand up to "await self._wiggler", and beyond it when the
\* task is done already (awaiting a finished task does not suspend).
LowerHand(c, o, cnt, cl) ==
    IF wiggler = None
    THEN \* LOGIC BUG: trying to lower already-lowered hand
         /\ UNCHANGED <<wiggler, tasks, lastCmd>>
         /\ Finish(c, o, cnt, "ok", cl)
    ELSE LET t == tasks[wiggler]
             stopping == [cl EXCEPT !.stopped =
                             IF TaskDone(t) THEN None ELSE wiggler]
         IN  /\ tasks' = [tasks EXCEPT ![wiggler] = Cancel(t)]
             /\ IF AwaitResult(t) = "pending"
                THEN /\ Suspend(c, cnt, "awaitTask", stopping)
                     /\ UNCHANGED <<wiggler, lastCmd>>
                ELSE Joined(c, o, cnt, stopping, t)

\* The critical section of a call, from taking the mutex to the first
\* suspension or to the return.
Enter(c, o) ==
    LET cnt == CountOnEntry(o, count)
        cl == [NewCall EXCEPT !.pre = count, !.preHandle = wiggler]
    IN  IF RaiseNeeded(o, cnt) THEN RaiseHand(c, o, cnt, cl)
        ELSE IF LowerNeeded(o, cnt) THEN LowerHand(c, o, cnt, cl)
        ELSE /\ UNCHANGED <<wiggler, tasks, lastCmd>>
             /\ Finish(c, o, cnt, "ok", cl)

\* History: the run a call o belongs to when it starts.
RunAt(o) ==
    IF o.name = "set" /\ o.n > 0 /\ run.n = o.n
    THEN [run EXCEPT !.calls = @ + 1]
    ELSE IF /\ o.name = "set" /\ o.n > 0
            /\ \A d \in Callers : pc[d] = "idle"
            /\ count >= 0
    THEN [NoRun EXCEPT !.n = o.n, !.calls = 1]
    ELSE NoRun

\* History: r with the moves and the task starts of one step added.
Counted(r, raised, started) ==
    IF r.n = 0 THEN r
    ELSE [r EXCEPT !.raised = @ + raised, !.started = @ + started]

Negative(cnt) == IF cnt < 0 THEN {"negative"} ELSE {}

\* Caller c starts a call: "async with self._mutex" and, when the lock is
\* free, the critical section.
Call(c, o) ==
    /\ pc[c] = "idle"
    /\ ncalls < MaxCalls
    /\ ncalls' = ncalls + 1
    /\ op' = [op EXCEPT ![c] = o]
    /\ IF MutexFree
       THEN Enter(c, o)
       ELSE /\ waiters' = Append(waiters, c)
            /\ pc' = [pc EXCEPT ![c] = "waitMutex"]
            /\ call' = [call EXCEPT ![c] = NewCall]
            /\ UNCHANGED <<count, mutex, wiggler, tasks, lastCmd>>
    /\ seen' = seen \cup {o.name} \cup Negative(count')
    /\ run' = Counted(RunAt(o), Raises(call'[c].moved), 0)
    /\ UNCHANGED <<mainOnly, teardown>>

IncrementCount(c) == Call(c, [name |-> "inc", n |-> 0])

DecrementCount(c) == Call(c, [name |-> "dec", n |-> 0])

SetCount(c, n) == Call(c, [name |-> "set", n |-> n])

\* (mutant: a waiter resumes without having been given the mutex)
GrantedM(c) ==
    /\ pc[c] = "waitMutex"
    /\ Enter(c, op[c])
    /\ seen' = seen \cup Negative(count')
    /\ run' = Counted(run, Raises(call'[c].moved), 0)
    /\ UNCHANGED <<op, ncalls, mainOnly, teardown>>

\* A waiter that was given the mutex runs.  The loop runs callbacks in the
\* order they were scheduled: a task created inside the critical section
\* that released the mutex has its first step before this waiter resumes.
Granted(c) ==
    /\ pc[c] = "waitMutex"
    /\ mutex = c
    /\ \A t \in TaskIds : tasks[t].pc # "created"
    /\ Enter(c, op[c])
    /\ seen' = seen \cup Negative(count')
    /\ run' = Counted(run, Raises(call'[c].moved), 0)
    /\ UNCHANGED <<op, ncalls, mainOnly, teardown>>

\* (mutant: raise_hand creates the task and does not keep the handle)
RaiseMoveDoneM(c) ==
    /\ pc[c] = "raiseMove"
    /\ tasks' = Append(tasks, NewTask)
    /\ wiggler' = wiggler
    /\ Finish(c, op[c], count, "ok", [call[c] EXCEPT !.started = @ + 1])
    /\ run' = Counted(run, 0, 1)
    /\ UNCHANGED <<lastCmd, op, ncalls, seen, mainOnly, teardown>>

\* raise_hand: the move to UPPER_POSITION is done; create the task, return.
RaiseMoveDone(c) ==
    /\ pc[c] = "raiseMove"
    /\ tasks' = Append(tasks, NewTask)
    /\ wiggler' = Len(tasks) + 1
    /\ Finish(c, op[c], count, "ok", [call[c] EXCEPT !.started = @ + 1])
    /\ run' = Counted(run, 0, 1)
    /\ UNCHANGED <<lastCmd, op, ncalls, seen, mainOnly, teardown>>

\* lower_hand: the awaited task, the one the call cancelled, is done.  Those
\* who await one task resume in the order in which they began to await it.
TaskJoined(c) ==
    /\ pc[c] = "awaitTask"
    /\ AwaitResult(tasks[call[c].stopped]) # "pending"
    /\ teardown.pc = "awaitTask" => c \in teardown.after
    /\ tasks' = tasks
    /\ Joined(c, op[c], count, call[c], tasks[call[c].stopped])
    /\ UNCHANGED <<op, ncalls, seen, run, mainOnly, teardown>>

\* lower_hand: the move to LOWER_POSITION is done; return.
LowerMoveDone(c) ==
    /\ pc[c] = "lowerMove"
    /\ UNCHANGED <<wiggler, tasks, lastCmd, op, ncalls, seen, run, mainOnly, teardown>>
    /\ Finish(c, op[c], count, "ok", call[c])

\* ------------------------------------- robot.py: _wiggle_on_inactivity

\* A step of task t that is not the delivery of a cancellation: once
\* cancel() was called, the next thing the task sees is CancelledError.
Runs(t, where) == tasks[t].pc \in where /\ ~tasks[t].cancel

\* The first step of the task: into the try block, up to the first sleep.
TaskStart(t) ==
    /\ Runs(t, {"created"})
    /\ tasks' = [tasks EXCEPT ![t].pc = "sleepInactive"]
    /\ UNCHANGED <<audience, callers, wiggler, lastCmd, mainOnly, teardown>>

\* asyncio.sleep(INACTIVITY_PERIOD_S) is over: the first move of the wiggle.
InactivityElapsed(t) ==
    /\ Runs(t, {"sleepInactive"})
    /\ lastCmd' = UPPER_POSITION + WIGGLE_AMOUNT
    /\ tasks' = [tasks EXCEPT ![t].pc = "movePlus", ![t].i = 0]
    /\ UNCHANGED <<audience, callers, wiggler, mainOnly, teardown>>

\* A move of the task is done: on to the sleep that follows it.
TaskMoveDone(t) ==
    /\ Runs(t, {"movePlus", "moveMinus", "moveUpper"})
    /\ tasks' = [tasks EXCEPT ![t].pc =
                    CASE @ = "movePlus" -> "sleepPlus"
                      [] @ = "moveMinus" -> "sleepMinus"
                      [] OTHER -> "sleepInactive"]
    /\ UNCHANGED <<audience, callers, wiggler, lastCmd, mainOnly, teardown>>

\* (mutant: the wiggle does not end with a move back to UPPER_POSITION)
WiggleDelayElapsedM(t) ==
    /\ Runs(t, {"sleepPlus", "sleepMinus"})
    /\ IF tasks[t].pc = "sleepPlus"
       THEN /\ lastCmd' = UPPER_POSITION - WIGGLE_AMOUNT
            /\ tasks' = [tasks EXCEPT ![t].pc = "moveMinus"]
       ELSE IF tasks[t].i + 1 < WIGGLE_REPEATS
       THEN /\ lastCmd' = UPPER_POSITION + WIGGLE_AMOUNT
            /\ tasks' = [tasks EXCEPT ![t].pc = "movePlus", ![t].i = @ + 1]
       ELSE /\ lastCmd' = lastCmd
            /\ tasks' = [tasks EXCEPT ![t].pc = "sleepInactive", ![t].i = 0]
    /\ UNCHANGED <<audience, callers, wiggler, mainOnly, teardown>>

\* asyncio.sleep(WIGGLE_DELAY_S) is over: the next move of the wiggle, or,
\* after the last round, the move back to UPPER_POSITION.
WiggleDelayElapsed(t) ==
    /\ Runs(t, {"sleepPlus", "sleepMinus"})
    /\ IF tasks[t].pc = "sleepPlus"
       THEN /\ lastCmd' = UPPER_POSITION - WIGGLE_AMOUNT
            /\ tasks' = [tasks EXCEPT ![t].pc = "moveMinus"]
       ELSE IF tasks[t].i + 1 < WIGGLE_REPEATS
       THEN /\ lastCmd' = UPPER_POSITION + WIGGLE_AMOUNT
            /\ tasks' = [tasks EXCEPT ![t].pc = "movePlus", ![t].i = @ + 1]
       ELSE /\ lastCmd' = UPPER_POSITION
            /\ tasks' = [tasks EXCEPT ![t].pc = "moveUpper", ![t].i = 0]
    /\ UNCHANGED <<audience, callers, wiggler, mainOnly, teardown>>

\* CancelledError is thrown into the task.  Inside the try block it is
\* caught and the task returns; a task that never ran is not inside it.
\* cancel stays set on the task that exited: it was asked to stop.
TaskCancelled(t) ==
    /\ tasks[t].cancel
    /\ ~TaskDone(tasks[t])
    /\ tasks' = [tasks EXCEPT ![t] =
                    [pc |-> IF @.pc = "created" THEN "cancelled" ELSE "returned",
                     i |-> 0, cancel |-> TRUE]]
    /\ UNCHANGED <<audience, callers, wiggler, lastCmd, mainOnly, teardown>>

\* ------------------------------------------- robot.py: create_robot exit

\* client.close() is called.
Closed(td) ==
    [td EXCEPT !.pc = "closed", !.cmd = lastCmd',
               !.alive = \E t \in DOMAIN tasks' : ~TaskDone(tasks'[t])]

\* Robot.stop from the end of "await self._wiggler" in its lower_hand: on
\* to the move, or out of lower_hand, stop and the finally block with the
\* exception of the task, client.close() not called.
StopJoined(td) ==
    IF AwaitResult(tasks[td.task]) = "ok"
    THEN /\ wiggler' = None
         /\ lastCmd' = LOWER_POSITION
         /\ teardown' = [td EXCEPT !.pc = "lowerMove"]
    ELSE /\ UNCHANGED <<wiggler, lastCmd>>
         /\ teardown' = [td EXCEPT !.pc = "raised",
                                   !.result = AwaitResult(tasks[td.task])]

\* The body of "async with create_robot(...)" is left: "await robot.stop()"
\* up to its first suspension.  stop takes no mutex.
Stop ==
    /\ teardown.pc = "running"
    /\ IF wiggler = None
       THEN /\ UNCHANGED <<wiggler, tasks, lastCmd>>
            /\ teardown' = Closed([teardown EXCEPT !.result = "ok"])
       ELSE LET t == tasks[wiggler]
                td == [teardown EXCEPT
                          !.task = wiggler,
                          !.after = {c \in Callers : pc[c] = "awaitTask"}]
            IN  /\ tasks' = [tasks EXCEPT ![wiggler] = Cancel(t)]
                /\ IF AwaitResult(t) = "pending"
                   THEN /\ teardown' = [td EXCEPT !.pc = "awaitTask"]
                        /\ UNCHANGED <<wiggler, lastCmd>>
                   ELSE StopJoined(td)
    /\ UNCHANGED <<audience, callers, mainOnly>>

\* stop: the awaited task is done, and those who awaited it before stop
\* have resumed.
StopTaskJoined ==
    /\ teardown.pc = "awaitTask"
    /\ AwaitResult(tasks[teardown.task]) # "pending"
    /\ \A c \in teardown.after : pc[c] # "awaitTask"
    /\ tasks' = tasks
    /\ StopJoined(teardown)
    /\ UNCHANGED <<audience, callers, mainOnly>>

\* stop: the move to LOWER_POSITION is done; stop returns and
\* client.close() is called.
StopLowerMoveDone ==
    /\ teardown.pc = "lowerMove"
    /\ UNCHANGED <<audience, callers, wiggler, tasks, lastCmd, mainOnly>>
    /\ teardown' = Closed([teardown EXCEPT !.result = "ok"])

\* The task stop awaits is done and stop has not resumed: stop resumes
\* before anything that waits for the servo or for a timer does.
StopWakes ==
    /\ teardown.pc = "awaitTask"
    /\ TaskDone(tasks[teardown.task])

\* ------------------------------------------------------- device faults

\* (mutant: raise_hand creates the task before it moves the servo)
RaiseMoveFailM(c) ==
    /\ pc[c] = "raiseMove"
    /\ tasks' = Append(tasks, NewTask)
    /\ wiggler' = Len(tasks) + 1
    /\ UNCHANGED <<lastCmd, op, ncalls, seen, run, mainOnly, teardown>>
    /\ Finish(c, op[c], count, "fault", call[c])

\* self._servo.move raises in raise_hand: out of raise_hand, out of the
\* critical section, to the caller.
RaiseMoveFail(c) ==
    /\ pc[c] = "raiseMove"
    /\ UNCHANGED <<wiggler, tasks, lastCmd, op, ncalls, seen, run, mainOnly, teardown>>
    /\ Finish(c, op[c], count, "fault", call[c])

\* self._servo.move raises in lower_hand.
LowerMoveFail(c) ==
    /\ pc[c] = "lowerMove"
    /\ UNCHANGED <<wiggler, tasks, lastCmd, op, ncalls, seen, run, mainOnly, teardown>>
    /\ Finish(c, op[c], count, "fault", call[c])

\* self._servo.move raises in the task: only CancelledError is caught.
TaskMoveFail(t) ==
    /\ Runs(t, {"movePlus", "moveMinus", "moveUpper"})
    /\ tasks' = [tasks EXCEPT ![t] = [pc |-> "failed", i |-> 0, cancel |-> FALSE]]
    /\ UNCHANGED <<audience, callers, wiggler, lastCmd, mainOnly, teardown>>

\* ------------------------------------------------------ specifications

Next ==
    \/ \E c \in Callers : IncrementCount(c)
    \/ \E c \in Callers : DecrementCount(c)
    \/ \E c \in Callers, n \in 0..MaxSet : SetCount(c, n)
    \/ \E c \in Callers : Granted(c)
    \/ \E c \in Callers : RaiseMoveDone(c)
    \/ \E c \in Callers : TaskJoined(c)
    \/ \E c \in Callers : LowerMoveDone(c)
    \/ \E t \in TaskIds : TaskStart(t)
    \/ \E t \in TaskIds : InactivityElapsed(t)
    \/ \E t \in TaskIds : TaskMoveDone(t)
    \/ \E t \in TaskIds : WiggleDelayElapsed(t)
    \/ \E t \in TaskIds : TaskCancelled(t)

\* The servo never fails.
Spec == Init /\ [][Next]_vars

NextFault ==
    \/ Next
    \/ \E c \in Callers : RaiseMoveFail(c)
    \/ \E c \in Callers : LowerMoveFail(c)
    \/ \E t \in TaskIds : TaskMoveFail(t)

\* Any move of the servo may fail.
SpecFault == Init /\ [][NextFault]_vars

NextStop ==
    \/ \E c \in Callers : IncrementCount(c)
    \/ \E c \in Callers : DecrementCount(c)
    \/ \E c \in Callers, n \in 0..MaxSet : SetCount(c, n)
    \/ \E c \in Callers : Granted(c)
    \/ \E c \in Callers : TaskJoined(c)
    \/ \E t \in TaskIds : TaskStart(t)
    \/ \E t \in TaskIds : TaskCancelled(t)
    \/ ~StopWakes /\ \E c \in Callers : RaiseMoveDone(c)
    \/ ~StopWakes /\ \E c \in Callers : LowerMoveDone(c)
    \/ ~StopWakes /\ \E t \in TaskIds : InactivityElapsed(t)
    \/ ~StopWakes /\ \E t \in TaskIds : TaskMoveDone(t)
    \/ ~StopWakes /\ \E t \in TaskIds : WiggleDelayElapsed(t)
    \/ Stop
    \/ StopTaskJoined
    \/ StopLowerMoveDone

\* The servo never fails, and the create_robot context is left at any
\* moment.
SpecStop == Init /\ [][NextStop]_vars

\* ---------------------------------------------------------------- main.py

MAIN_UPPER_POSITION == 30
MAIN_LOWER_POSITION == 0
MAIN_WIGGLE_AMOUNT == 5
MAIN_WIGGLE_REPEATS == 3

\* No position has been sent to the servo: connect() moves nothing.
NoCmd == 0 - 1

\* The calls a caller can make: raise_hand(), lower_hand(), set_count(n).
MainOps ==
    {[name |-> "raise", n |-> 0], [name |-> "lower", n |-> 0]}
        \cup {[name |-> "set", n |-> k] : k \in 0..MaxSet}

\* Robot.connect.  The Python that runs it is 3.11 or later, where
\* "except TimeoutError" catches the timeout of asyncio.wait_for, or older,
\* where it does not.
InitMain ==
    /\ count = 0
    /\ mutex = None
    /\ waiters = <<>>
    /\ wiggler = None
    /\ tasks = <<>>
    /\ lastCmd = NoCmd
    /\ pc = [c \in Callers |-> "idle"]
    /\ op = [c \in Callers |-> NoOp]
    /\ ncalls = 0
    /\ call = [c \in Callers |-> NewCall]
    /\ seen = {}
    /\ run = NoRun
    /\ cv = FALSE
    /\ shutdown = TRUE
    /\ py311 \in BOOLEAN
    /\ teardown = NoTeardown

\* The mutex is held by callers c and by tasks t, the latter written -t.
Holder(t) == 0 - t

\* The call of caller c returns or raises and leaves "async with".
MainFinish(c, cnt, res, cl) ==
    /\ count' = cnt
    /\ pc' = [pc EXCEPT ![c] = "idle"]
    /\ call' = [call EXCEPT ![c] =
                   [cl EXCEPT !.result = res, !.post = cnt, !.handle = wiggler']]
    /\ Release

\* Robot._start_wiggler: a handle that is there already is only reported.
StartWiggler ==
    /\ shutdown' = FALSE
    /\ cv' = FALSE
    /\ tasks' = Append(tasks, NewTask)
    /\ wiggler' = Len(tasks) + 1

\* What "await self._wiggler" gives in _stop_wiggler: awaiting None is a
\* TypeError.
MainAwaitResult ==
    IF wiggler = None THEN "TypeError" ELSE AwaitResult(tasks[wiggler])

\* Robot._stop_wiggler from the end of "await self._wiggler", and the move
\* to LOWER_POSITION that follows it in lower_hand and set_count.
MainJoined(c, cnt, cl) ==
    IF MainAwaitResult = "ok"
    THEN /\ wiggler' = None
         /\ lastCmd' = MAIN_LOWER_POSITION
         /\ Suspend(c, cnt, "lowerMove",
                    [cl EXCEPT !.moved = Append(@, MAIN_LOWER_POSITION)])
    ELSE /\ UNCHANGED <<wiggler, lastCmd>>
         /\ MainFinish(c, cnt, MainAwaitResult, cl)

\* Robot._stop_wiggler up to "await self._wiggler", and beyond it when that
\* does not suspend.
StopWiggler(c, cnt, cl) ==
    /\ shutdown' = TRUE
    /\ cv' = TRUE
    /\ tasks' = tasks
    /\ IF MainAwaitResult = "pending"
       THEN /\ Suspend(c, cnt, "awaitTask", [cl EXCEPT !.stopped = wiggler])
            /\ UNCHANGED <<wiggler, lastCmd>>
       ELSE MainJoined(c, cnt, cl)

\* raise_hand and set_count up to their move to UPPER_POSITION.
MoveUp(c, cnt, cl) ==
    /\ lastCmd' = MAIN_UPPER_POSITION
    /\ Suspend(c, cnt, "raiseMove",
               [cl EXCEPT !.moved = Append(@, MAIN_UPPER_POSITION)])
    /\ UNCHANGED <<wiggler, tasks, cv, shutdown>>

\* The critical section of raise_hand, lower_hand and set_count, from
\* taking the mutex to the first suspension or to the return.
MainEnter(c, o) ==
    LET cl == [NewCall EXCEPT !.pre = count, !.preHandle = wiggler]
    IN  CASE o.name = "raise" ->
                 IF count + 1 = 1
                 THEN MoveUp(c, count + 1, [cl EXCEPT !.shouldStart = TRUE])
                 ELSE /\ UNCHANGED <<wiggler, tasks, lastCmd, cv, shutdown>>
                      /\ MainFinish(c, count + 1, "ok", cl)
          [] o.name = "lower" ->
                 IF count - 1 = 0
                 THEN StopWiggler(c, count - 1, cl)
                 ELSE /\ UNCHANGED <<wiggler, tasks, lastCmd, cv, shutdown>>
                      /\ MainFinish(c, count - 1, "ok", cl)
          [] OTHER ->
                 IF o.n = 0
                 THEN StopWiggler(c, o.n, cl)
                 ELSE MoveUp(c, o.n,
                             [cl EXCEPT !.shouldStart = (count = 0 /\ o.n > 0)])

\* Caller c starts a call of main.py's Robot.
MainCall(c, o) ==
    /\ pc[c] = "idle"
    /\ ncalls < MaxCalls
    /\ ncalls' = ncalls + 1
    /\ op' = [op EXCEPT ![c] = o]
    /\ IF MutexFree
       THEN MainEnter(c, o)
       ELSE /\ waiters' = Append(waiters, c)
            /\ pc' = [pc EXCEPT ![c] = "waitMutex"]
            /\ call' = [call EXCEPT ![c] = NewCall]
            /\ UNCHANGED <<count, mutex, wiggler, tasks, lastCmd, cv, shutdown>>
    /\ seen' = seen \cup {o.name} \cup Negative(count')
    /\ UNCHANGED <<run, py311, teardown>>

MainRaiseHand(c) == MainCall(c, [name |-> "raise", n |-> 0])

MainLowerHand(c) == MainCall(c, [name |-> "lower", n |-> 0])

MainSetCount(c, n) == MainCall(c, [name |-> "set", n |-> n])

\* A waiting caller that was given the mutex runs.
MainGranted(c) ==
    /\ pc[c] = "waitMutex"
    /\ mutex = c
    /\ \A t \in TaskIds : tasks[t].pc # "created"
    /\ MainEnter(c, op[c])
    /\ seen' = seen \cup Negative(count')
    /\ UNCHANGED <<op, ncalls, run, py311, teardown>>

\* The move to UPPER_POSITION of raise_hand or set_count is done.
MainRaiseMoveDone(c) ==
    /\ pc[c] = "raiseMove"
    /\ IF call[c].shouldStart
       THEN /\ StartWiggler
            /\ MainFinish(c, count, "ok", [call[c] EXCEPT !.started = @ + 1])
       ELSE /\ UNCHANGED <<wiggler, tasks, cv, shutdown>>
            /\ MainFinish(c, count, "ok", call[c])
    /\ UNCHANGED <<lastCmd, op, ncalls, seen, run, py311, teardown>>

\* _stop_wiggler: the awaited task is done.
MainTaskJoined(c) ==
    /\ pc[c] = "awaitTask"
    /\ MainAwaitResult # "pending"
    /\ MainJoined(c, count, call[c])
    /\ UNCHANGED <<tasks, cv, shutdown, op, ncalls, seen, run, py311, teardown>>

\* The move to LOWER_POSITION of lower_hand or set_count is done.
MainLowerMoveDone(c) ==
    /\ pc[c] = "lowerMove"
    /\ UNCHANGED <<wiggler, tasks, lastCmd, cv, shutdown>>
    /\ MainFinish(c, count, "ok", call[c])
    /\ UNCHANGED <<op, ncalls, seen, run, py311, teardown>>

\* ------------------------------ main.py: _wiggle_on_inactivity, _wiggle_hand

\* The top of "while not self._should_shutdown_wiggler": out of the loop, or
\* into asyncio.wait_for(self._cv.wait(), timeout=INACTIVITY_PERIOD_S).
LoopTop == IF shutdown THEN "returned" ELSE "waitCv"

\* The position of a move of _wiggle_hand.
WigglePosition(step) ==
    IF step = "Plus" THEN MAIN_UPPER_POSITION + MAIN_WIGGLE_AMOUNT
    ELSE MAIN_UPPER_POSITION

\* Task t reaches "async with self._mutex" of round i of _wiggle_hand, the
\* lock being held by m with w waiting: it takes the lock and sends the
\* move, or it waits.
AcquireOrWait(t, step, i, m, w) ==
    IF m = None /\ w = <<>>
    THEN /\ mutex' = Holder(t)
         /\ waiters' = w
         /\ lastCmd' = WigglePosition(step)
         /\ tasks' = [tasks EXCEPT ![t].pc = "move" \o step, ![t].i = i]
    ELSE /\ mutex' = m
         /\ waiters' = Append(w, Holder(t))
         /\ lastCmd' = lastCmd
         /\ tasks' = [tasks EXCEPT ![t].pc = "waitMutex" \o step, ![t].i = i]

\* The first step of the task.
MainTaskStart(t) ==
    /\ tasks[t].pc = "created"
    /\ tasks' = [tasks EXCEPT ![t].pc = LoopTop]
    /\ UNCHANGED <<audience, callers, wiggler, lastCmd, mainOnly, teardown>>

\* self._cv.wait() returns: the event is set.
MainNotified(t) ==
    /\ tasks[t].pc = "waitCv"
    /\ cv
    /\ tasks' = [tasks EXCEPT ![t].pc = LoopTop]
    /\ UNCHANGED <<audience, callers, wiggler, lastCmd, mainOnly, teardown>>

\* asyncio.wait_for times out: into _wiggle_hand when the exception is
\* caught, out of the task when it is not.
MainTimeout(t) ==
    /\ tasks[t].pc = "waitCv"
    /\ ~cv
    /\ IF py311
       THEN AcquireOrWait(t, "Plus", 0, mutex, waiters)
       ELSE /\ tasks' = [tasks EXCEPT ![t].pc = "timedOut"]
            /\ UNCHANGED <<mutex, waiters, lastCmd>>
    /\ UNCHANGED <<count, callers, wiggler, mainOnly, teardown>>

\* A waiting task that was given the mutex sends its move.
MainTaskGranted(t) ==
    /\ tasks[t].pc \in {"waitMutexPlus", "waitMutexUpper"}
    /\ mutex = Holder(t)
    /\ \A u \in TaskIds : tasks[u].pc # "created"
    /\ lastCmd' = WigglePosition(IF tasks[t].pc = "waitMutexPlus"
                                 THEN "Plus" ELSE "Upper")
    /\ tasks' = [tasks EXCEPT ![t].pc =
                    IF @ = "waitMutexPlus" THEN "movePlus" ELSE "moveUpper"]
    /\ UNCHANGED <<audience, callers, wiggler, mainOnly, teardown>>

\* A move of _wiggle_hand is done: the task leaves "async with", sleeps
\* without giving up the loop (time.sleep) and goes on to the next
\* "async with", or, after the last round, back to the top of the loop.
MainTaskMoveDone(t) ==
    /\ tasks[t].pc \in {"movePlus", "moveUpper"}
    /\ LET m == IF waiters = <<>> THEN None ELSE Head(waiters)
           w == IF waiters = <<>> THEN <<>> ELSE Tail(waiters)
       IN  IF tasks[t].pc = "movePlus"
           THEN AcquireOrWait(t, "Upper", tasks[t].i, m, w)
           ELSE IF tasks[t].i + 1 < MAIN_WIGGLE_REPEATS
           THEN AcquireOrWait(t, "Plus", tasks[t].i + 1, m, w)
           ELSE /\ mutex' = m
                /\ waiters' = w
                /\ lastCmd' = lastCmd
                /\ tasks' = [tasks EXCEPT ![t].pc = LoopTop, ![t].i = 0]
    /\ UNCHANGED <<count, callers, wiggler, mainOnly, teardown>>

NextMain ==
    \/ \E c \in Callers : MainRaiseHand(c)
    \/ \E c \in Callers : MainLowerHand(c)
    \/ \E c \in Callers, n \in 0..MaxSet : MainSetCount(c, n)
    \/ \E c \in Callers : MainGranted(c)
    \/ \E c \in Callers : MainRaiseMoveDone(c)
    \/ \E c \in Callers : MainTaskJoined(c)
    \/ \E c \in Callers : MainLowerMoveDone(c)
    \/ \E t \in TaskIds : MainTaskStart(t)
    \/ \E t \in TaskIds : MainNotified(t)
    \/ \E t \in TaskIds : MainTimeout(t)
    \/ \E t \in TaskIds : MainTaskGranted(t)
    \/ \E t \in TaskIds : MainTaskMoveDone(t)

\* main.py's Robot, the servo never failing.
SpecMain == InitMain /\ [][NextMain]_vars

\* -------------------------------------------------------------- claims

Returned(c) == pc[c] = "idle" /\ call[c].result # "none"

WigglePositions ==
    {UPPER_POSITION + WIGGLE_AMOUNT, UPPER_POSITION - WIGGLE_AMOUNT, UPPER_POSITION}

\* C1: in a history of increment_count and decrement_count calls only, the
\* count never negative and the servo never failing, a call that takes the
\* count from 0 to 1 sends exactly one move, to UPPER_POSITION, a call that
\* takes it from 1 to 0 sends exactly one move, to LOWER_POSITION, and a
\* call that leaves the count positive sends none.
C1_OneMovePerTransition ==
    seen \subseteq {"inc", "dec"} =>
        \A c \in Callers : Returned(c) =>
            /\ op[c].name = "inc" /\ call[c].pre = 0
                   => call[c].moved = <<UPPER_POSITION>>
            /\ op[c].name = "inc" /\ call[c].pre > 0 => call[c].moved = <<>>
            /\ op[c].name = "dec" /\ call[c].pre = 1
                   => call[c].moved = <<LOWER_POSITION>>
            /\ op[c].name = "dec" /\ call[c].pre > 1 => call[c].moved = <<>>

\* C2: when two callers have each made one increment_count from the initial
\* Idle state and nothing else was called, then, once both have returned,
\* the count is 2, one move to UPPER_POSITION was sent and one task was
\* created, whatever the interleaving.
C2_TwoIncrements ==
    \A a, b \in Callers :
        /\ a # b /\ ncalls = 2
        /\ op[a].name = "inc" /\ op[b].name = "inc"
        /\ Returned(a) /\ Returned(b)
        => /\ count = 2
           /\ Raises(call[a].moved) + Raises(call[b].moved) = 1
           /\ Len(call[a].moved) + Len(call[b].moved) = 1
           /\ call[a].started + call[b].started = 1
           /\ Len(tasks) = 1 /\ wiggler = 1
           /\ call[a].result = "ok" /\ call[b].result = "ok"

C2_Witness ==
    /\ ncalls = 2 /\ count = 2 /\ Len(tasks) = 1
    /\ \A c \in {1, 2} : op[c].name = "inc" /\ Returned(c)
    /\ call[2].pre = 0 /\ call[1].pre = 1

\* C3: the move to LOWER_POSITION of lower_hand is sent only when every
\* task has exited, a call that cancelled a task is past its await only when
\* that task has exited, and no task is alive (so none can move the servo)
\* while the last position sent is LOWER_POSITION.
C3_LowerAfterTaskExit ==
    /\ \A c \in Callers :
           pc[c] = "lowerMove" => \A t \in TaskIds : TaskDone(tasks[t])
    /\ \A c \in Callers :
           call[c].stopped # None /\ pc[c] \in {"lowerMove", "idle"}
               => TaskDone(tasks[call[c].stopped])
    /\ lastCmd = LOWER_POSITION => \A t \in TaskIds : TaskDone(tasks[t])

\* A call that cancelled a running task has sent LOWER_POSITION after the
\* task returned.
C3_Witness ==
    \E c \in Callers :
        /\ pc[c] = "lowerMove" /\ op[c].name \in {"dec", "set"}
        /\ call[c].stopped # None
        /\ tasks[call[c].stopped].pc = "returned"
        /\ lastCmd = LOWER_POSITION

\* C4: whenever nobody holds the mutex, the task handle is present if and
\* only if the count is positive.
C4_HandleIffPositive ==
    mutex = None => (wiggler # None <=> count > 0)

\* C5: whenever nobody holds the mutex, in a history without a negative
\* count and without servo faults, the last position sent is
\* LOWER_POSITION when the count is 0 and UPPER_POSITION or a wiggle
\* position when the count is positive.
C5_PositionMatchesCount ==
    mutex = None /\ "negative" \notin seen =>
        /\ count = 0 => lastCmd = LOWER_POSITION
        /\ count > 0 => lastCmd \in WigglePositions

\* C6: over a run of set_count(n) calls with one n > 0, begun at a count
\* that is not negative, at most one move to UPPER_POSITION is sent and at
\* most one task is created.
C6_SetCountIdempotent ==
    run.n > 0 => run.raised <= 1 /\ run.started <= 1

\* Two set_count(n) calls in a row have returned: the first raised the hand.
C6_Witness ==
    /\ run.n > 0 /\ run.calls >= 2
    /\ run.raised = 1 /\ run.started = 1
    /\ \A c \in Callers : pc[c] = "idle"

\* C7: a set_count(0) of main.py's Robot that finds count 0 returns
\* normally, sends no move and starts and stops no task.
C7_MainSetZeroAtZero ==
    \A c \in Callers :
        /\ op[c].name = "set" /\ op[c].n = 0
        /\ pc[c] # "waitMutex" /\ call[c].pre = 0
        => /\ pc[c] = "idle"
           /\ call[c].result = "ok"
           /\ call[c].moved = <<>>
           /\ call[c].started = 0
           /\ call[c].stopped = None

\* The same of Audience.set_count, which does hold: neither condition of
\* set_count is true, whatever the task handle.
C7_AudienceSetZeroAtZero ==
    \A c \in Callers :
        /\ op[c].name = "set" /\ op[c].n = 0
        /\ pc[c] # "waitMutex" /\ call[c].pre = 0
        => /\ pc[c] = "idle"
           /\ call[c].result = "ok"
           /\ call[c].moved = <<>>
           /\ call[c].started = 0
           /\ call[c].stopped = None
           /\ call[c].handle = call[c].preHandle
           /\ call[c].post = 0

\* C8: a set_count(n), n > 0, that finds a positive count returns without
\* suspending, sends no move, creates and cancels no task, leaves the
\* handle and sets the count to n.
C8_SetCountPositiveToPositive ==
    \A c \in Callers :
        /\ op[c].name = "set" /\ op[c].n > 0
        /\ pc[c] # "waitMutex" /\ call[c].pre > 0
        => /\ pc[c] = "idle"
           /\ call[c].result = "ok"
           /\ call[c].moved = <<>>
           /\ call[c].started = 0
           /\ call[c].stopped = None
           /\ call[c].handle = call[c].preHandle
           /\ call[c].post = op[c].n

\* set_count(n) returned with a count different from the positive one found,
\* the task still running.
C8_Witness ==
    \E c \in Callers :
        /\ op[c].name = "set" /\ op[c].n > 0 /\ Returned(c)
        /\ call[c].pre > 0 /\ call[c].pre # op[c].n
        /\ wiggler # None /\ ~TaskDone(tasks[wiggler])
        /\ count = op[c].n

\* C9: an increment_count that finds count 0 and whose move to
\* UPPER_POSITION fails raises the fault and leaves count 0 and no handle.
C9_FailedRaiseLeavesState ==
    \A c \in Callers :
        /\ Returned(c) /\ op[c].name = "inc" /\ call[c].pre = 0
        /\ call[c].result = "fault"
        => call[c].post = 0 /\ call[c].handle = None

\* C10: a decrement_count or set_count(0) that would take the count to 0
\* and whose move to LOWER_POSITION fails raises the fault and leaves the
\* count positive and the handle present.
C10_FailedLowerLeavesState ==
    \A c \in Callers :
        /\ Returned(c) /\ call[c].result = "fault"
        /\ call[c].moved = <<LOWER_POSITION>>
        /\ \/ op[c].name = "dec" /\ call[c].pre = 1
           \/ op[c].name = "set" /\ op[c].n = 0 /\ call[c].pre > 0
        => call[c].post = call[c].pre /\ call[c].handle # None

\* C11: when the create_robot context is left, Robot.stop returns, and at
\* the call of client.close() the position last sent is LOWER_POSITION and
\* no task is alive.
C11_TeardownLowersAndStops ==
    /\ teardown.pc # "raised"
    /\ teardown.pc = "closed" =>
           teardown.cmd = LOWER_POSITION /\ ~teardown.alive

\* C12: the count is never negative, whatever calls are made.
C12_CountNonNegative == count >= 0

\* Caller c is suspended inside "async with self._mutex".
InCS(c) == pc[c] \in {"raiseMove", "awaitTask", "lowerMove"}

\* Caller c holds the mutex, or takes it in this step without waiting.
Owns(c) == mutex = c \/ (mutex = None /\ waiters = <<>>)

\* C13: a caller inside its critical section holds the mutex, so at most one
\* is inside at any time; and every change of the count, of the task handle
\* and of the tasks created, and every move a call sends, is made by a step
\* of the caller that holds the mutex, or of a call that starts and finds the
\* mutex free: the critical sections run one after the other, in the order
\* in which the mutex was taken.
C13_Serialized ==
    /\ [](\A c \in Callers : InCS(c) => mutex = c)
    /\ [][/\ <<count, wiggler, Len(tasks)>>' # <<count, wiggler, Len(tasks)>>
              => \/ ncalls' # ncalls /\ mutex = None /\ waiters = <<>>
                 \/ \E c \in Callers :
                        /\ mutex = c
                        /\ pc'[c] # pc[c] \/ call'[c] # call[c]
          /\ \A c \in Callers :
                 call'[c].moved # call[c].moved /\ call'[c].moved # <<>>
                     => Owns(c)]_vars

\* A call waits for the mutex while another, inside its critical section,
\* is suspended on a move of the servo.
C13_Witness ==
    \E a, b \in Callers :
        /\ pc[a] \in {"raiseMove", "lowerMove"} /\ mutex = a
        /\ pc[b] = "waitMutex" /\ b \in {waiters[k] : k \in DOMAIN waiters}

\* C14: in main.py, _stop_wiggler called with no task returns normally (it
\* does not raise the TypeError of awaiting None), and _start_wiggler
\* called with a task handle present creates no task.
C14_MainMisuseNoOp ==
    \A c \in Callers :
        /\ call[c].result # "TypeError"
        /\ call[c].started > 0 => call[c].preHandle = None

\* The same of robot.py's Robot, which does hold: raise_hand called with a
\* handle present and lower_hand called with none send no move, leave the
\* handle, create and cancel no task and return.
C14_RobotMisuseNoOp ==
    \A c \in Callers :
        /\ pc[c] # "waitMutex" /\ op[c] # NoOp
        /\ LET cnt == CountOnEntry(op[c], call[c].pre)
           IN  \/ RaiseNeeded(op[c], cnt) /\ call[c].preHandle # None
               \/ LowerNeeded(op[c], cnt) /\ call[c].preHandle = None
        => /\ pc[c] = "idle"
           /\ call[c].result = "ok"
           /\ call[c].moved = <<>>
           /\ call[c].started = 0
           /\ call[c].stopped = None
           /\ call[c].handle = call[c].preHandle

\* C15: a call whose lower_hand cancelled the task gets past its await
\* with the task exited, sends LOWER_POSITION, and returns normally with the
\* handle cleared, whatever the task was doing when it was cancelled.
C15_CancelThenLower ==
    \A c \in Callers :
        call[c].stopped # None /\ pc[c] \in {"lowerMove", "idle"}
            => /\ TaskDone(tasks[call[c].stopped])
               /\ call[c].moved = <<LOWER_POSITION>>
               /\ pc[c] = "idle" =>
                      call[c].result = "ok" /\ call[c].handle = None

\* C16: every task that has not exited is the one the handle refers to, so
\* at most one task is alive and no running task has lost its handle.
C16_OneTaskOwned ==
    \A t \in TaskIds : ~TaskDone(tasks[t]) => wiggler = t

\* A first task has exited and a second one, created after it, is alive
\* and is the one the handle refers to.
C16_Witness ==
    \E t, u \in TaskIds :
        /\ t < u /\ TaskDone(tasks[t])
        /\ ~TaskDone(tasks[u]) /\ wiggler = u

\* The calls of self._servo.move that were made and have neither returned
\* nor been abandoned: those of the callers, of the tasks and of Robot.stop.
MovesInFlight ==
    Cardinality({c \in Callers : pc[c] \in {"raiseMove", "lowerMove"}})
        + Cardinality({t \in TaskIds :
                          tasks[t].pc \in {"movePlus", "moveMinus", "moveUpper"}})
        + (IF teardown.pc = "lowerMove" THEN 1 ELSE 0)

\* C17: at most one move of the servo is in flight at any time, over the
\* calls of the Audience and the wiggling task.
C17_OneMoveInFlight == MovesInFlight <= 1

\* A call waits for the task it cancelled while that task has a move in
\* flight.
C17_Witness ==
    \E c \in Callers :
        /\ pc[c] = "awaitTask"
        /\ tasks[call[c].stopped].pc \in {"movePlus", "moveMinus", "moveUpper"}
        /\ MovesInFlight = 1

\* C18: a task that has a move in flight holds the mutex, and a task in its
\* inactivity wait does not.
C18_TaskMovesUnderLock ==
    \A t \in TaskIds :
        /\ tasks[t].pc \in {"movePlus", "moveMinus", "moveUpper"}
               => mutex = Holder(t)
        /\ tasks[t].pc \in {"sleepInactive", "waitCv"} => mutex # Holder(t)

\* C19: a set_count(n) that returned normally left the count at n; when it
\* found count 0 and n > 0 it sent one move, to UPPER_POSITION, and created
\* one task; when it found a positive count and n = 0 it stopped the task
\* and sent one move, to LOWER_POSITION.
C19_SetCountTransitions ==
    \A c \in Callers :
        Returned(c) /\ op[c].name = "set" /\ call[c].result = "ok"
            => /\ call[c].post = op[c].n
               /\ call[c].pre = 0 /\ op[c].n > 0
                      => /\ call[c].moved = <<UPPER_POSITION>>
                         /\ call[c].started = 1
               /\ call[c].pre > 0 /\ op[c].n = 0
                      => /\ call[c].moved = <<LOWER_POSITION>>
                         /\ call[c].stopped # None
                         /\ call[c].handle = None

\* C20: an increment_count that finds a count of 1 or more, and a
\* decrement_count that leaves a count above 0, return without suspending,
\* send no move, create and cancel no task, leave the handle and change the
\* count by one.
C20_CountOnly ==
    \A c \in Callers :
        /\ pc[c] # "waitMutex"
        /\ \/ op[c].name = "inc" /\ call[c].pre >= 1
           \/ op[c].name = "dec" /\ call[c].pre - 1 > 0
        => /\ pc[c] = "idle"
           /\ call[c].result = "ok"
           /\ call[c].moved = <<>>
           /\ call[c].started = 0
           /\ call[c].stopped = None
           /\ call[c].handle = call[c].preHandle
           /\ call[c].post = CountOnEntry(op[c], call[c].pre)

\* A decrement_count has taken the count from 2 to 1 and the task that was
\* running is still running, not cancelled.
C20_Witness ==
    \E c \in Callers :
        /\ Returned(c) /\ op[c].name = "dec"
        /\ call[c].pre = 2 /\ count = 1
        /\ wiggler # None /\ wiggler = call[c].preHandle
        /\ ~TaskDone(tasks[wiggler]) /\ ~tasks[wiggler].cancel

\* C21: a set_count(n), n > 0, that finds count 0 and whose move to
\* UPPER_POSITION fails raises the fault and leaves count 0, no handle and
\* no task created; and a set_count(n), n > 0, that finds count 0 and no
\* handle, as the failed one leaves them, and returns normally has sent
\* UPPER_POSITION and created the task.
C21_FailedSetCountRetry ==
    \A c \in Callers :
        Returned(c) /\ op[c].name = "set" /\ op[c].n > 0 /\ call[c].pre = 0
            => /\ call[c].result = "fault"
                      => /\ call[c].post = 0
                         /\ call[c].handle = None
                         /\ call[c].started = 0
                         /\ call[c].moved = <<UPPER_POSITION>>
               /\ call[c].result = "ok" /\ call[c].preHandle = None
                      => /\ call[c].moved = <<UPPER_POSITION>>
                         /\ call[c].started = 1
                         /\ call[c].post = op[c].n

\* A set_count(n) failed in its move and the next call, set_count(n) again,
\* raised the hand and created the task.
C21_Witness ==
    \E a, b \in Callers :
        /\ a # b /\ ncalls = 2 /\ Returned(a) /\ Returned(b)
        /\ op[a].name = "set" /\ op[a].n > 0 /\ op[b] = op[a]
        /\ call[a].pre = 0 /\ call[a].result = "fault"
        /\ call[b].pre = 0 /\ call[b].result = "ok"
        /\ call[b].moved = <<UPPER_POSITION>> /\ call[b].started = 1
        /\ count = op[a].n /\ wiggler # None

\* C22: in main.py, while the handle is present and _stop_wiggler has not
\* asked the task to stop, the task the handle refers to is alive.
C22_MainNoSelfTermination ==
    \A t \in TaskIds : wiggler = t /\ ~shutdown => ~TaskDone(tasks[t])

\* The same of robot.py's task, which does hold when the servo does not
\* fail: a task that has exited had been cancelled.
C22_RobotNoSelfTermination ==
    \A t \in TaskIds : TaskDone(tasks[t]) => tasks[t].cancel

\* C23: the task of robot.py is in one of WIGGLE_REPEATS = 3 rounds, each a
\* move to UPPER_POSITION + WIGGLE_AMOUNT and a move to UPPER_POSITION -
\* WIGGLE_AMOUNT, the position last sent being the one of the task's last
\* move; after the last round it moves to UPPER_POSITION; and whenever it is
\* in its inactivity wait the position last sent is UPPER_POSITION.
C23_WiggleEndsUpper ==
    \A t \in TaskIds :
        /\ tasks[t].i \in 0..(WIGGLE_REPEATS - 1)
        /\ tasks[t].pc \in {"movePlus", "sleepPlus"}
               => lastCmd = UPPER_POSITION + WIGGLE_AMOUNT
        /\ tasks[t].pc \in {"moveMinus", "sleepMinus"}
               => lastCmd = UPPER_POSITION - WIGGLE_AMOUNT
        /\ tasks[t].pc \in {"moveUpper", "sleepInactive"}
               => lastCmd = UPPER_POSITION /\ tasks[t].i = 0

\* The third round is over and the task has sent UPPER_POSITION.
C23_Witness ==
    \E t \in TaskIds :
        /\ tasks[t].pc = "moveUpper" /\ ~tasks[t].cancel
        /\ lastCmd = UPPER_POSITION

\* The same of main.py's _wiggle_hand: three rounds, each a move to
\* UPPER_POSITION + WIGGLE_AMOUNT and a move to UPPER_POSITION, and
\* UPPER_POSITION the position last sent whenever the task waits.
C23_MainWiggleEndsUpper ==
    \A t \in TaskIds :
        /\ tasks[t].i \in 0..(MAIN_WIGGLE_REPEATS - 1)
        /\ tasks[t].pc = "movePlus"
               => lastCmd = MAIN_UPPER_POSITION + MAIN_WIGGLE_AMOUNT
        /\ tasks[t].pc \in {"moveUpper", "waitCv"}
               => lastCmd = MAIN_UPPER_POSITION

\* C24: in main.py, a set_count(n), n > 0, that finds a positive count
\* sends no move and starts no task.
C24_MainSetCountPositiveToPositive ==
    \A c \in Callers :
        /\ op[c].name = "set" /\ op[c].n > 0
        /\ pc[c] # "waitMutex" /\ call[c].pre > 0
        => call[c].moved = <<>> /\ call[c].started = 0

\* C25: in main.py, no caller holds the mutex awaiting the task while that
\* task waits for the mutex.
C25_MainNoDeadlock ==
    \A c \in Callers :
        pc[c] = "awaitTask" /\ mutex = c /\ call[c].stopped # None
            => tasks[call[c].stopped].pc \notin {"waitMutexPlus", "waitMutexUpper"}

\* The set_count call that increment_count or decrement_count o, made at
\* count pre, is compared with: set_count(pre + 1) or set_count(pre - 1).
AsSetCount(o, pre) == [name |-> "set", n |-> CountOnEntry(o, pre)]

\* C26: an increment_count or decrement_count made at count pre calls
\* raise_hand and lower_hand exactly when set_count(pre + 1) or
\* set_count(pre - 1) made at that count does, and leaves the count that
\* set_count leaves: its argument when it returns, pre when it raises.
C26_IncDecAsSetCount ==
    \A c \in Callers :
        op[c].name \in {"inc", "dec"} /\ pc[c] # "waitMutex" =>
            LET pre == call[c].pre
                s == AsSetCount(op[c], pre)
            IN  /\ RaiseNeeded(op[c], CountOnEntry(op[c], pre))
                       <=> RaiseNeeded(s, CountOnEntry(s, pre))
                /\ LowerNeeded(op[c], CountOnEntry(op[c], pre))
                       <=> LowerNeeded(s, CountOnEntry(s, pre))
                /\ Returned(c) =>
                       call[c].post =
                           IF call[c].result = "ok"
                           THEN CountOnExit(s, CountOnEntry(s, pre))
                           ELSE CountOnEntry(s, pre)

\* C27: a decrement_count or set_count(0) that would take the count to 0
\* and finds the handle of a task that a failed move has ended clears the
\* handle and sends LOWER_POSITION.
C27_LowerAfterTaskFault ==
    \A c \in Callers :
        /\ Returned(c)
        /\ LowerNeeded(op[c], CountOnEntry(op[c], call[c].pre))
        /\ call[c].preHandle # None
        /\ tasks[call[c].preHandle].pc = "failed"
        => call[c].handle = None /\ call[c].moved = <<LOWER_POSITION>>

====
